---- MODULE Spec2Model ----
(***************************************************************************)
(* Model of iso::meta_type::var_pack (src/meta_types.hpp): the compile     *)
(* time analysis of variadic packs.  Every facility of var_pack is a pure  *)
(* function decided during translation, so each one is an operator that    *)
(* is computed the way the templates / overloads compute it, and the       *)
(* state machine is the translator evaluating one constant expression      *)
(* after another: an action picks the template arguments and the call      *)
(* arguments of one expression and records the value it evaluates to.      *)
(*                                                                         *)
(* A type is a name.  A constant value is a record [type, val] whose type  *)
(* is the type deduced for it by a by-value parameter (const First).       *)
(***************************************************************************)
EXTENDS Integers, Sequences, FiniteSets, TLC

VARIABLES
  pc,        \* where the translator is with the current expression
  op,        \* the facility the last evaluated expression used
  list,      \* its allowed list <TypeFirst, TypeRest...> (membership checks)
  params,    \* its pack of types <Types...> / <Params...>
  args,      \* its pack of constant values (first, rest...)
  target,    \* Type of var_pack::type<Type, defaultValue>
  dflt,      \* the defaultValue template argument, or Omitted
  result,    \* the value of the expression
  call,      \* step-wise evaluation: the instantiation / call being evaluated
  steps      \* step-wise evaluation: instantiations and calls made so far

vars == <<pc, op, list, params, args, target, dflt, result, call, steps>>

-----------------------------------------------------------------------------
(* Bounds of the exploration *)

\* longest pack <Types...> handed to is_types_unique_v
MaxPack == 4
\* longest query pack handed to a membership check (types or values)
MaxQuery == 3
\* longest allowed list <TypeFirst, TypeRest...>
MaxList == 3
\* longest pack of values handed to is_types_val_unique_v and type::get
MaxArgs == 3

-----------------------------------------------------------------------------
(* The types and constant values the expressions are built from.  bool and *)
(* int convert implicitly to one another; the scoped enumeration TestType4 *)
(* converts to and from nothing.                                           *)

Types == {"bool", "int", "TestType4"}

\* the values of each type that appear as call arguments
ArgValsOf(t) ==
  CASE t = "bool" -> {0, 1}
    [] t = "int" -> {2}
    [] t = "TestType4" -> {5}

\* the values of each type that appear as an explicit defaultValue
DefaultValsOf(t) ==
  CASE t = "bool" -> {1}
    [] t = "int" -> {7}
    [] t = "TestType4" -> {9}

Values == UNION {{[type |-> t, val |-> v] : v \in ArgValsOf(t)} : t \in Types}

ValuesOfType(t) == {v \in Values : v.type = t}

\* all sequences over S of length lo..hi
SeqsOf(S, lo, hi) == UNION {[1..n -> S] : n \in lo..hi}

TypesOf(pack) == [i \in 1..Len(pack) |-> pack[i].type]

-----------------------------------------------------------------------------
(* var_pack::is_same: the primary template is false, the partial           *)
(* specialisation is_same<T, T> is true.                                   *)

is_same_v(T, U) == IF T = U THEN TRUE ELSE FALSE

(* var_pack::is_types_unique<Types...>::duplicate_type<First, Rest...> *)

RECURSIVE duplicate_type_adjacent(_)
duplicate_type_adjacent(Ts) ==
  IF Len(Ts) = 1
    THEN TRUE
    ELSE /\ ~is_same_v(Ts[1], Ts[2])
         /\ duplicate_type_adjacent(Tail(Ts))

RECURSIVE duplicate_type(_)
duplicate_type(Ts) ==
  IF Len(Ts) = 1
    THEN TRUE
    ELSE /\ \A i \in 2..Len(Ts) : ~is_same_v(Ts[1], Ts[i])
         /\ duplicate_type(Tail(Ts))

(* var_pack::is_types_unique<Types...>::value and is_types_unique_v *)

is_types_unique(Ts) == IF Len(Ts) # 0 THEN duplicate_type(Ts) ELSE TRUE

is_types_unique_v(Ts) == is_types_unique(Ts)

-----------------------------------------------------------------------------
(* var_pack::is_type_list<TypeFirst, TypeRest...>: membership of types.    *)
(* A is the allowed list, never empty.                                     *)

is_parameter_inside_first_only(A, T) == is_same_v(T, A[1])

RECURSIVE is_parameter_inside_last_matches(_, _)
is_parameter_inside_last_matches(A, T) ==
  IF Len(A) = 1
    THEN TRUE
    ELSE (IF is_same_v(T, A[1]) THEN TRUE ELSE is_parameter_inside_last_matches(Tail(A), T))

RECURSIVE is_parameter_inside(_, _)
is_parameter_inside(A, T) ==
  IF Len(A) = 1
    THEN (IF is_same_v(T, A[1]) THEN TRUE ELSE FALSE)
    ELSE (IF is_same_v(T, A[1]) THEN TRUE ELSE is_parameter_inside(Tail(A), T))

contains_head_only(A, Q) == is_parameter_inside(A, Q[1])

RECURSIVE contains(_, _)
contains(A, Q) ==
  IF Len(Q) = 1
    THEN (IF is_parameter_inside(A, Q[1]) THEN TRUE ELSE FALSE)
    ELSE (IF is_parameter_inside(A, Q[1]) THEN contains(A, Tail(Q)) ELSE FALSE)

contains_v(A, Q) == IF Len(Q) # 0 THEN contains(A, Q) ELSE TRUE

-----------------------------------------------------------------------------
(* Overload resolution, as the translator performs it on the overload sets *)
(* of var_pack.  A candidate is [name, ranks, tmpl, spec]: ranks[i] is the *)
(* rank of the implicit conversion of argument i to parameter i, tmpl      *)
(* tells a function template from a non-template function, and spec        *)
(* orders the templates of one set by partial ordering (the smaller, the   *)
(* more specialised).  Candidates whose template argument deduction fails  *)
(* or whose parameter count does not fit are not in the set.               *)

\* rank of the implicit conversion from an argument of type `from` to a
\* by-value parameter of type `to`: 0 identity (exact match), 1 promotion,
\* 2 conversion, 3 no implicit conversion
Rank(from, to) ==
  CASE from = to -> 0
    [] from = "bool" /\ to = "int" -> 1
    [] from = "int" /\ to = "bool" -> 2
    [] OTHER -> 3

Viable(c) == \A i \in 1..Len(c.ranks) : c.ranks[i] < 3

\* the value a parameter of type `to` is initialised with from argument v
Convert(v, to) ==
  [type |-> to,
   val |-> IF v.type = to THEN v.val
           ELSE IF to = "bool" THEN (IF v.val # 0 THEN 1 ELSE 0)
           ELSE v.val]

\* a parameter `const First` with First deduced from the argument
Deduced(v) == Rank(v.type, v.type)

DeducedRanks(pack) == [i \in 1..Len(pack) |-> Deduced(pack[i])]

\* c is a better candidate than d
Better(c, d) ==
  /\ \A i \in 1..Len(c.ranks) : c.ranks[i] <= d.ranks[i]
  /\ \/ \E i \in 1..Len(c.ranks) : c.ranks[i] < d.ranks[i]
     \/ ~c.tmpl /\ d.tmpl
     \/ c.tmpl /\ d.tmpl /\ c.spec < d.spec

\* the name of the best viable candidate; the call is ill-formed without one
Resolve(cands) ==
  LET viable == {c \in cands : Viable(c)}
      best == {c \in viable : \A d \in viable \ {c} : Better(c, d)}
  IN IF best = {} THEN "ill-formed" ELSE (CHOOSE c \in best : TRUE).name

-----------------------------------------------------------------------------
(* var_pack::duplicate: uniqueness of the types of a pack of values *)

is_same_v_overloads(a, b) ==
  (IF a.type = b.type
     THEN {[name |-> "is_same_v(const T, const T)",
            ranks |-> <<Deduced(a), Deduced(b)>>, tmpl |-> TRUE, spec |-> 1]}
     ELSE {})
  \cup {[name |-> "is_same_v(const T, const U)",
         ranks |-> <<Deduced(a), Deduced(b)>>, tmpl |-> TRUE, spec |-> 2]}

duplicate_is_same_v_by_value(a, b) == a.type = b.type /\ a.val = b.val

duplicate_is_same_v(a, b) ==
  LET f == Resolve(is_same_v_overloads(a, b))
  IN CASE f = "is_same_v(const T, const T)" -> TRUE
       [] f = "is_same_v(const T, const U)" -> FALSE

duplicate_types_val_overloads(pack) ==
  (IF Len(pack) = 0
     THEN {[name |-> "duplicate_types_val()", ranks |-> <<>>, tmpl |-> FALSE, spec |-> 0]}
     ELSE {})
  \cup (IF Len(pack) = 1
     THEN {[name |-> "duplicate_types_val(const First)",
            ranks |-> DeducedRanks(pack), tmpl |-> TRUE, spec |-> 1]}
     ELSE {})
  \cup (IF Len(pack) >= 1
     THEN {[name |-> "duplicate_types_val(const First, const Rest...)",
            ranks |-> DeducedRanks(pack), tmpl |-> TRUE, spec |-> 2]}
     ELSE {})

duplicate_types_val_no_recursion(pack) ==
  LET f == Resolve(duplicate_types_val_overloads(pack))
  IN CASE f = "duplicate_types_val()" -> TRUE
       [] f = "duplicate_types_val(const First)" -> TRUE
       [] f = "duplicate_types_val(const First, const Rest...)" ->
            \A i \in 2..Len(pack) : ~duplicate_is_same_v(pack[1], pack[i])

RECURSIVE duplicate_types_val(_)
duplicate_types_val(pack) ==
  LET f == Resolve(duplicate_types_val_overloads(pack))
  IN CASE f = "duplicate_types_val()" -> TRUE
       [] f = "duplicate_types_val(const First)" -> TRUE
       [] f = "duplicate_types_val(const First, const Rest...)" ->
            /\ \A i \in 2..Len(pack) : ~duplicate_is_same_v(pack[1], pack[i])
            /\ duplicate_types_val(Tail(pack))

(* var_pack::is_types_val_unique_v(args...) *)

is_types_val_unique_v_overloads(pack) ==
  (IF Len(pack) = 0
     THEN {[name |-> "is_types_val_unique_v()", ranks |-> <<>>, tmpl |-> FALSE, spec |-> 0]}
     ELSE {})
  \cup (IF Len(pack) = 1
     THEN {[name |-> "is_types_val_unique_v(const First)",
            ranks |-> DeducedRanks(pack), tmpl |-> TRUE, spec |-> 1]}
     ELSE {})
  \cup (IF Len(pack) >= 1
     THEN {[name |-> "is_types_val_unique_v(const First, const Rest...)",
            ranks |-> DeducedRanks(pack), tmpl |-> TRUE, spec |-> 2]}
     ELSE {})

is_types_val_unique_v(pack) ==
  LET f == Resolve(is_types_val_unique_v_overloads(pack))
  IN CASE f = "is_types_val_unique_v()" -> TRUE
       [] f = "is_types_val_unique_v(const First)" -> TRUE
       [] f = "is_types_val_unique_v(const First, const Rest...)" ->
            duplicate_types_val(pack)

-----------------------------------------------------------------------------
(* var_pack::contains_list<TypeFirst, TypesRest...>: membership of the     *)
(* types of a pack of values.  A is the allowed list, never empty.         *)

is_parameter_inside_overloads_convertible(A, v) ==
  {[name |-> "is_parameter_inside(const TypeFirst)",
    ranks |-> <<IF Rank(v.type, A[1]) < 3 THEN 0 ELSE 3>>, tmpl |-> FALSE, spec |-> 0],
   [name |-> "is_parameter_inside(const Value)",
    ranks |-> <<Deduced(v)>>, tmpl |-> TRUE, spec |-> 1]}

\* is_parameter_inside(const TypeFirst) and the template
\* is_parameter_inside(const Value), called with one value
is_parameter_inside_overloads(A, v) ==
  {[name |-> "is_parameter_inside(const TypeFirst)",
    ranks |-> <<Rank(v.type, A[1])>>, tmpl |-> FALSE, spec |-> 0],
   [name |-> "is_parameter_inside(const Value)",
    ranks |-> <<Deduced(v)>>, tmpl |-> TRUE, spec |-> 1]}

RECURSIVE contains_list_is_parameter_inside(_, _)
contains_list_is_parameter_inside(A, v) ==
  LET f == Resolve(is_parameter_inside_overloads(A, v))
  IN CASE f = "is_parameter_inside(const TypeFirst)" -> TRUE
       [] f = "is_parameter_inside(const Value)" ->
            IF Len(A) = 1
              THEN FALSE
              ELSE contains_list_is_parameter_inside(Tail(A), v)

contains_list_contains_overloads(pack) ==
  (IF Len(pack) = 0
     THEN {[name |-> "contains()", ranks |-> <<>>, tmpl |-> FALSE, spec |-> 0]}
     ELSE {})
  \cup (IF Len(pack) >= 1
     THEN {[name |-> "contains(const First, const Rest...)",
            ranks |-> DeducedRanks(pack), tmpl |-> TRUE, spec |-> 1]}
     ELSE {})

RECURSIVE contains_list_contains(_, _)
contains_list_contains(A, pack) ==
  LET f == Resolve(contains_list_contains_overloads(pack))
  IN CASE f = "contains()" -> TRUE
       [] f = "contains(const First, const Rest...)" ->
            IF contains_list_is_parameter_inside(A, pack[1])
              THEN contains_list_contains(A, Tail(pack))
              ELSE FALSE

(* var_pack::is_type_val_list<TypeFirst, TypesRest...>::contains_v(args...) *)

is_type_val_list_contains_v_overloads(pack) ==
  (IF Len(pack) = 0
     THEN {[name |-> "contains_v()", ranks |-> <<>>, tmpl |-> FALSE, spec |-> 0]}
     ELSE {})
  \cup (IF Len(pack) >= 1
     THEN {[name |-> "contains_v(const First, const Rest...)",
            ranks |-> DeducedRanks(pack), tmpl |-> TRUE, spec |-> 1]}
     ELSE {})

is_type_val_list_contains_v(A, pack) ==
  LET f == Resolve(is_type_val_list_contains_v_overloads(pack))
  IN CASE f = "contains_v()" -> TRUE
       [] f = "contains_v(const First, const Rest...)" ->
            contains_list_contains(A, pack)

-----------------------------------------------------------------------------
(* var_pack::type<Type, defaultValue>::get(args...).  d is the template    *)
(* argument list after Type: empty when defaultValue is left to Type{}.    *)

\* Type{}: value initialisation
ValueInit(Type) == [type |-> Type, val |-> 0]

\* what a call without a best viable overload stands for: no value
IllFormed == [type |-> "ill-formed", val |-> 0]

defaultValue_always_value_init(Type, d) == ValueInit(Type)

defaultValue(Type, d) ==
  IF Len(d) = 0 THEN ValueInit(Type) ELSE [type |-> Type, val |-> d[1]]

get_overloads_convertible(Type, pack) ==
  LET r == IF Rank(pack[1].type, Type) < 3 THEN 0 ELSE 3
  IN (IF Len(pack) = 0
        THEN {[name |-> "get()", ranks |-> <<>>, tmpl |-> FALSE, spec |-> 0]}
        ELSE {})
     \cup (IF Len(pack) = 1
        THEN {[name |-> "get(const Type first)",
               ranks |-> <<r>>, tmpl |-> FALSE, spec |-> 0],
              [name |-> "get(const First)",
               ranks |-> DeducedRanks(pack), tmpl |-> TRUE, spec |-> 1]}
        ELSE {})
     \cup (IF Len(pack) >= 1
        THEN {[name |-> "get(const Type first, const Rest...)",
               ranks |-> <<r>> \o DeducedRanks(Tail(pack)),
               tmpl |-> TRUE, spec |-> 1],
              [name |-> "get(const First, const Rest... rest)",
               ranks |-> DeducedRanks(pack), tmpl |-> TRUE, spec |-> 2]}
        ELSE {})

get_overloads_skip_preferred(Type, pack) ==
  (IF Len(pack) = 0
     THEN {[name |-> "get()", ranks |-> <<>>, tmpl |-> FALSE, spec |-> 0]}
     ELSE {})
  \cup (IF Len(pack) = 1
     THEN {[name |-> "get(const Type first)",
            ranks |-> <<Rank(pack[1].type, Type)>>, tmpl |-> FALSE, spec |-> 0],
           [name |-> "get(const First)",
            ranks |-> DeducedRanks(pack), tmpl |-> TRUE, spec |-> 1]}
     ELSE {})
  \cup (IF Len(pack) >= 1
     THEN {[name |-> "get(const Type first, const Rest...)",
            ranks |-> <<Rank(pack[1].type, Type)>> \o DeducedRanks(Tail(pack)),
            tmpl |-> TRUE, spec |-> 2],
           [name |-> "get(const First, const Rest... rest)",
            ranks |-> DeducedRanks(pack), tmpl |-> TRUE, spec |-> 1]}
     ELSE {})

get_overloads(Type, pack) ==
  (IF Len(pack) = 0
     THEN {[name |-> "get()", ranks |-> <<>>, tmpl |-> FALSE, spec |-> 0]}
     ELSE {})
  \cup (IF Len(pack) = 1
     THEN {[name |-> "get(const Type first)",
            ranks |-> <<Rank(pack[1].type, Type)>>, tmpl |-> FALSE, spec |-> 0],
           [name |-> "get(const First)",
            ranks |-> DeducedRanks(pack), tmpl |-> TRUE, spec |-> 1]}
     ELSE {})
  \cup (IF Len(pack) >= 1
     THEN {[name |-> "get(const Type first, const Rest...)",
            ranks |-> <<Rank(pack[1].type, Type)>> \o DeducedRanks(Tail(pack)),
            tmpl |-> TRUE, spec |-> 1],
           [name |-> "get(const First, const Rest... rest)",
            ranks |-> DeducedRanks(pack), tmpl |-> TRUE, spec |-> 2]}
     ELSE {})

\* the overload a call get(pack...) is resolved to
get_overload(Type, pack) == Resolve(get_overloads(Type, pack))

get_first_element_only(Type, d, pack) ==
  LET f == get_overload(Type, pack)
  IN CASE f = "get()" -> defaultValue(Type, d)
       [] f = "get(const Type first)" -> Convert(pack[1], Type)
       [] f = "get(const First)" -> defaultValue(Type, d)
       [] f = "get(const Type first, const Rest...)" -> Convert(pack[1], Type)
       [] f = "get(const First, const Rest... rest)" -> defaultValue(Type, d)
       [] OTHER -> IllFormed

RECURSIVE get(_, _, _)
get(Type, d, pack) ==
  LET f == get_overload(Type, pack)
  IN CASE f = "get()" -> defaultValue(Type, d)
       [] f = "get(const Type first)" -> Convert(pack[1], Type)
       [] f = "get(const First)" -> defaultValue(Type, d)
       [] f = "get(const Type first, const Rest...)" -> Convert(pack[1], Type)
       [] f = "get(const First, const Rest... rest)" -> get(Type, d, Tail(pack))
       [] OTHER -> IllFormed

-----------------------------------------------------------------------------
(* The translator: it meets one constant expression at a time (the operand *)
(* of a static_assert, a requires-clause, ...), instantiates it with its   *)
(* template arguments and call arguments, and evaluates it.                *)

\* no instantiation or call is being evaluated
NoCall == [fn |-> "none", rest |-> <<>>, lst |-> <<>>, acc |-> TRUE, found |-> FALSE]

Init ==
  /\ pc = "idle"
  /\ op = "none"
  /\ list = <<>>
  /\ params = <<>>
  /\ args = <<>>
  /\ target = "none"
  /\ dflt = <<>>
  /\ result = "none"
  /\ call = NoCall
  /\ steps = 0

\* var_pack::is_types_unique_v<Types...> is named with a pack of types
Use_is_types_unique_v ==
  /\ pc = "idle"
  /\ params' \in SeqsOf(Types, 0, MaxPack)
  /\ op' = "is_types_unique_v"
  /\ pc' = "instantiated"
  /\ UNCHANGED <<list, args, target, dflt, result, call, steps>>

\* var_pack::is_types_val_unique_v(args...) is called with a pack of values
Use_is_types_val_unique_v ==
  /\ pc = "idle"
  /\ args' \in SeqsOf(Values, 0, MaxArgs)
  /\ op' = "is_types_val_unique_v"
  /\ pc' = "instantiated"
  /\ UNCHANGED <<list, params, target, dflt, result, call, steps>>

\* var_pack::is_type_list<A...>::contains_v<Params...> is named
Use_is_type_list_contains_v ==
  /\ pc = "idle"
  /\ list' \in SeqsOf(Types, 1, MaxList)
  /\ params' \in SeqsOf(Types, 0, MaxQuery)
  /\ op' = "is_type_list::contains_v"
  /\ pc' = "instantiated"
  /\ UNCHANGED <<args, target, dflt, result, call, steps>>

\* var_pack::is_type_val_list<A...>::contains_v(args...) is called
Use_is_type_val_list_contains_v ==
  /\ pc = "idle"
  /\ list' \in SeqsOf(Types, 1, MaxList)
  /\ args' \in SeqsOf(Values, 0, MaxQuery)
  /\ op' = "is_type_val_list::contains_v"
  /\ pc' = "instantiated"
  /\ UNCHANGED <<params, target, dflt, result, call, steps>>

\* var_pack::type<Type, defaultValue>::get(args...) is called
Use_type_get ==
  /\ pc = "idle"
  /\ \E Type \in Types :
       /\ target' = Type
       /\ dflt' \in {<<>>} \cup {<<v>> : v \in DefaultValsOf(Type)}
  /\ args' \in SeqsOf(Values, 0, MaxArgs)
  /\ op' = "type::get"
  /\ pc' = "instantiated"
  /\ UNCHANGED <<list, params, result, call, steps>>

\* the value of the expression
Value ==
  CASE op = "is_types_unique_v" -> is_types_unique_v(params)
    [] op = "is_types_val_unique_v" -> is_types_val_unique_v(args)
    [] op = "is_type_list::contains_v" -> contains_v(list, params)
    [] op = "is_type_val_list::contains_v" -> is_type_val_list_contains_v(list, args)
    [] op = "type::get" -> get(target, dflt, args)

\* constant evaluation of the instantiated expression
Evaluate ==
  /\ pc = "instantiated"
  /\ result' = Value
  /\ pc' = "evaluated"
  /\ UNCHANGED <<op, list, params, args, target, dflt, call, steps>>

\* the expression is done with; the translator goes on to the next one
NextExpression ==
  /\ pc = "evaluated"
  /\ pc' = "idle"
  /\ op' = "none"
  /\ list' = <<>>
  /\ params' = <<>>
  /\ args' = <<>>
  /\ target' = "none"
  /\ dflt' = <<>>
  /\ result' = "none"
  /\ call' = NoCall
  /\ steps' = 0

Next ==
  \/ Use_is_types_unique_v
  \/ Use_is_types_val_unique_v
  \/ Use_is_type_list_contains_v
  \/ Use_is_type_val_list_contains_v
  \/ Use_type_get
  \/ Evaluate
  \/ NextExpression

Spec == Init /\ [][Next]_vars

\* the expression evaluated last used facility f
Evaluated(f) == pc = "evaluated" /\ op = f

-----------------------------------------------------------------------------
(* Step-wise evaluation: the same expressions, evaluated one template      *)
(* instantiation or one function call at a time.  call.fn is the template  *)
(* or function entered, call.rest its remaining pack (Types..., Params..., *)
(* args...), call.lst the remaining allowed list of is_parameter_inside,   *)
(* call.acc the conjunction and call.found the disjunction that the        *)
(* enclosing initialisers have gathered so far.  Naming X::value of a      *)
(* class template instantiates X whatever the operands around it are, so   *)
(* the class templates run down to their base case; the constexpr          *)
(* functions return as soon as && or ?: decides.                           *)

\* the pack the expression was given: types or values
Pack == IF Len(params) # 0 THEN params ELSE args

Rest_whole_pack(pack) == pack

\* the expansion Rest... / TypeRest... / rest... : the pack without its first
Rest(pack) == Tail(pack)

\* the call returns v: the expression has its value
Return(v) ==
  /\ pc' = "evaluated"
  /\ result' = v
  /\ call' = NoCall
  /\ steps' = steps + 1
  /\ UNCHANGED <<op, list, params, args, target, dflt>>

\* the evaluation goes on in the instantiation / call c
Continue(c) ==
  /\ pc' = "running"
  /\ call' = c
  /\ steps' = steps + 1
  /\ UNCHANGED <<op, list, params, args, target, dflt, result>>

\* the expression names its facility with its pack
Call ==
  /\ pc = "instantiated"
  /\ pc' = "running"
  /\ call' = [NoCall EXCEPT !.fn = op, !.rest = Pack]
  /\ UNCHANGED <<op, list, params, args, target, dflt, result, steps>>

Running(fn) == pc = "running" /\ call.fn = fn

\* is_types_unique<Types...>::value: if constexpr (sizeof...(Types))
Step_is_types_unique_v ==
  /\ Running("is_types_unique_v")
  /\ IF Len(call.rest) # 0
       THEN Continue([call EXCEPT !.fn = "duplicate_type"])
       ELSE Return(TRUE)

\* duplicate_type<First, Rest...> and duplicate_type<First>
Step_duplicate_type ==
  /\ Running("duplicate_type")
  /\ IF Len(call.rest) = 1
       THEN Return(call.acc /\ TRUE)
       ELSE Continue([call EXCEPT
              !.acc = /\ call.acc
                      /\ \A i \in 2..Len(call.rest) :
                           ~is_same_v(call.rest[1], call.rest[i]),
              !.rest = Rest(call.rest)])

\* is_types_val_unique_v(), (const First), (const First, const Rest...)
Step_is_types_val_unique_v ==
  /\ Running("is_types_val_unique_v")
  /\ LET f == Resolve(is_types_val_unique_v_overloads(call.rest))
     IN IF f = "is_types_val_unique_v(const First, const Rest...)"
          THEN Continue([call EXCEPT !.fn = "duplicate::duplicate_types_val"])
          ELSE Return(TRUE)

\* duplicate::duplicate_types_val(), (const First), (const First, const Rest...)
Step_duplicate_types_val ==
  /\ Running("duplicate::duplicate_types_val")
  /\ LET f == Resolve(duplicate_types_val_overloads(call.rest))
     IN IF f = "duplicate_types_val(const First, const Rest...)"
          THEN IF \A i \in 2..Len(call.rest) :
                    ~duplicate_is_same_v(call.rest[1], call.rest[i])
                 THEN Continue([call EXCEPT !.rest = Rest(call.rest)])
                 ELSE Return(FALSE)
          ELSE Return(TRUE)

\* is_type_list<A...>::contains_v<Params...>: if constexpr (sizeof...(Params))
Step_contains_v ==
  /\ Running("is_type_list::contains_v")
  /\ IF Len(call.rest) # 0
       THEN Continue([call EXCEPT !.fn = "is_type_list::contains"])
       ELSE Return(TRUE)

\* is_type_list<A...>::contains<ParamFirst, ParamRest...>: it names
\* is_parameter_inside<ParamFirst> of the whole allowed list
Step_contains ==
  /\ Running("is_type_list::contains")
  /\ Continue([call EXCEPT !.fn = "is_type_list::is_parameter_inside",
                           !.lst = list, !.found = FALSE])

\* is_type_list<TypeFirst, TypeRest...>::is_parameter_inside<T>; with the
\* last type of the list the value of contains<ParamFirst, ...> is known
Step_is_parameter_inside ==
  /\ Running("is_type_list::is_parameter_inside")
  /\ LET inside == (IF call.found THEN TRUE ELSE is_same_v(call.rest[1], call.lst[1]))
     IN IF Len(call.lst) = 1
          THEN IF Len(call.rest) = 1
                 THEN Return(call.acc /\ (IF inside THEN TRUE ELSE FALSE))
                 ELSE Continue([call EXCEPT !.fn = "is_type_list::contains",
                                            !.acc = call.acc /\ inside,
                                            !.rest = Rest(call.rest),
                                            !.lst = <<>>, !.found = FALSE])
          ELSE Continue([call EXCEPT !.found = inside, !.lst = Rest(call.lst)])

\* is_type_val_list<A...>::contains_v(), (const First, const Rest...)
Step_is_type_val_list_contains_v ==
  /\ Running("is_type_val_list::contains_v")
  /\ LET f == Resolve(is_type_val_list_contains_v_overloads(call.rest))
     IN IF f = "contains_v(const First, const Rest...)"
          THEN Continue([call EXCEPT !.fn = "contains_list::contains"])
          ELSE Return(TRUE)

\* contains_list<A...>::contains(), (const First, const Rest...)
Step_contains_list_contains ==
  /\ Running("contains_list::contains")
  /\ LET f == Resolve(contains_list_contains_overloads(call.rest))
     IN IF f = "contains(const First, const Rest...)"
          THEN Continue([call EXCEPT !.fn = "contains_list::is_parameter_inside",
                                     !.lst = list])
          ELSE Return(TRUE)

\* contains_list<TypeFirst, TypesRest...>::is_parameter_inside(value)
Step_contains_list_is_parameter_inside ==
  /\ Running("contains_list::is_parameter_inside")
  /\ LET f == Resolve(is_parameter_inside_overloads(call.lst, call.rest[1]))
     IN IF f = "is_parameter_inside(const TypeFirst)"
          THEN Continue([call EXCEPT !.fn = "contains_list::contains",
                                     !.rest = Rest(call.rest), !.lst = <<>>])
          ELSE IF Len(call.lst) = 1
                 THEN Return(FALSE)
                 ELSE Continue([call EXCEPT !.lst = Rest(call.lst)])

\* type<Type, defaultValue>::get: the five overloads
Step_get ==
  /\ Running("type::get")
  /\ LET f == get_overload(target, call.rest)
     IN CASE f = "get()" -> Return(defaultValue(target, dflt))
          [] f = "get(const Type first)" -> Return(Convert(call.rest[1], target))
          [] f = "get(const First)" -> Return(defaultValue(target, dflt))
          [] f = "get(const Type first, const Rest...)" ->
               Return(Convert(call.rest[1], target))
          [] f = "get(const First, const Rest... rest)" ->
               Continue([call EXCEPT !.rest = Rest(call.rest)])
          [] OTHER -> Return(IllFormed)

\* one instantiation or call
Step ==
  \/ Step_is_types_unique_v
  \/ Step_duplicate_type
  \/ Step_is_types_val_unique_v
  \/ Step_duplicate_types_val
  \/ Step_contains_v
  \/ Step_contains
  \/ Step_is_parameter_inside
  \/ Step_is_type_val_list_contains_v
  \/ Step_contains_list_contains
  \/ Step_contains_list_is_parameter_inside
  \/ Step_get

StepNext ==
  \/ Use_is_types_unique_v
  \/ Use_is_types_val_unique_v
  \/ Use_is_type_list_contains_v
  \/ Use_is_type_val_list_contains_v
  \/ Use_type_get
  \/ Call
  \/ Step
  \/ NextExpression

\* the translator does not stop in the middle of an expression
StepSpec == Init /\ [][StepNext]_vars /\ WF_vars(Call) /\ WF_vars(Step)

-----------------------------------------------------------------------------
(* Vocabulary of the properties *)

\* pack with t inserted after position k (k = 0: at the start)
InsertAt(pack, k, t) == SubSeq(pack, 1, k) \o <<t>> \o SubSeq(pack, k + 1, Len(pack))

Rearrangements(n) == {f \in [1..n -> 1..n] : \A i, j \in 1..n : f[i] = f[j] => i = j}

Permuted(pack, f) == [i \in 1..Len(pack) |-> pack[f[i]]]

\* the packs of values with the same types, position by position, as pack
RECURSIVE SameTyped(_)
SameTyped(pack) ==
  IF Len(pack) = 0
    THEN {<<>>}
    ELSE {<<v>> \o r : v \in ValuesOfType(pack[1].type), r \in SameTyped(Tail(pack))}

\* type t is another type than u, one that converts implicitly to u
ConvertibleOnly(t, u) == t # u /\ Rank(t, u) < 3

InList(t, A) == \E j \in 1..Len(A) : A[j] = t

-----------------------------------------------------------------------------
(* The properties *)

\* C1: is_types_unique_v<P...> is true iff no two distinct positions of P
\* hold the identical type; the empty pack and every singleton pack are
\* unique, and a copy of a type already in a unique pack, inserted at the
\* start, in the middle or at the end, makes the result false.
C1_TypesUniqueIffPairwiseDistinct ==
  Evaluated("is_types_unique_v") =>
    /\ result = (\A i, j \in 1..Len(params) : i # j => params[i] # params[j])
    /\ Len(params) <= 1 => result = TRUE
    /\ result = TRUE =>
         \A k \in 0..Len(params), i \in 1..Len(params) :
           is_types_unique_v(InsertAt(params, k, params[i])) = FALSE

C1_Witness ==
  /\ Evaluated("is_types_unique_v")
  /\ Len(params) = 3
  /\ result = TRUE

\* C2 as stated: is_types_val_unique_v(P...) is true iff no two distinct
\* positions of P hold equal elements, two values being equal only if their
\* declared types are identical and their values compare equal.
C2_UniqueIffNoEqualTypeAndValue ==
  Evaluated("is_types_val_unique_v") =>
    result = (\A i, j \in 1..Len(args) :
                i # j => ~(args[i].type = args[j].type /\ args[i].val = args[j].val))

\* C2 as amended: is_types_val_unique_v(P...) is true iff no two distinct
\* positions of P hold values of the identical declared type; the values
\* themselves are not compared.
C2_UniqueIffNoEqualType ==
  Evaluated("is_types_val_unique_v") =>
    result = (\A i, j \in 1..Len(args) : i # j => args[i].type # args[j].type)

C2_Witness ==
  /\ Evaluated("is_types_val_unique_v")
  /\ Len(args) = 2
  /\ args[1].type = args[2].type
  /\ args[1].val # args[2].val
  /\ result = FALSE

\* C3: is_types_val_unique_v(P...) is false whenever two distinct positions
\* of P hold values of the same declared type, whatever their values (a pack
\* with both false and true is not unique), and true when the declared
\* types are pairwise distinct.
C3_SameTypeNeverUnique ==
  Evaluated("is_types_val_unique_v") =>
    LET types == {args[i].type : i \in 1..Len(args)}
    IN /\ Cardinality(types) < Len(args) => result = FALSE
       /\ Cardinality(types) = Len(args) => result = TRUE
       /\ \A pack \in SameTyped(args) : is_types_val_unique_v(pack) = result

C3_Witness ==
  /\ Evaluated("is_types_val_unique_v")
  /\ Len(args) = 3
  /\ args[1] = [type |-> "bool", val |-> 0]
  /\ args[2].type = "TestType4"
  /\ args[3] = [type |-> "bool", val |-> 1]
  /\ result = FALSE

\* C4: is_type_list<A...>::contains_v<Q...> is true iff every element of Q
\* is type-identical to some element of A; an empty Q gives true, one
\* non-member anywhere in Q gives false, and a type that only converts to a
\* member of A is not a member.
C4_ContainsIffAllMembers ==
  Evaluated("is_type_list::contains_v") =>
    /\ result = (\A i \in 1..Len(params) : \E j \in 1..Len(list) : params[i] = list[j])
    /\ Len(params) = 0 => result = TRUE
    /\ (\E i \in 1..Len(params) :
          /\ ~InList(params[i], list)
          /\ \E j \in 1..Len(list) : ConvertibleOnly(params[i], list[j]))
       => result = FALSE

C4_Witness ==
  /\ Evaluated("is_type_list::contains_v")
  /\ Len(params) = 3
  /\ InList(params[1], list) /\ InList(params[3], list)
  /\ ~InList(params[2], list)
  /\ \E j \in 1..Len(list) : ConvertibleOnly(params[2], list[j])
  /\ result = FALSE

\* C5: is_type_val_list<A...>::contains_v(q1, .., qn) is the type-level
\* decision is_type_list<A...>::contains_v<T1, .., Tn> on the declared types
\* of the values: it does not depend on what the values hold, is true of the
\* empty pack, and is false when a value's type only converts to a member.
C5_ValueLevelIsTypeLevel ==
  Evaluated("is_type_val_list::contains_v") =>
    /\ result = contains_v(list, TypesOf(args))
    /\ \A pack \in SameTyped(args) : is_type_val_list_contains_v(list, pack) = result
    /\ Len(args) = 0 => result = TRUE
    /\ (\E i \in 1..Len(args) :
          /\ ~InList(args[i].type, list)
          /\ \E j \in 1..Len(list) : ConvertibleOnly(args[i].type, list[j]))
       => result = FALSE

C5_Witness ==
  /\ Evaluated("is_type_val_list::contains_v")
  /\ Len(args) = 2
  /\ InList(args[1].type, list)
  /\ ~InList(args[2].type, list)
  /\ \E j \in 1..Len(list) : ConvertibleOnly(args[2].type, list[j])
  /\ result = FALSE

\* C6: when the first element of declared type Type in Q sits at position
\* i, type<Type, d>::get(Q...) is the value at position i, whatever the
\* elements of other types around it and whatever elements of type Type
\* follow it.
C6_GetReturnsLeftmostMatch ==
  Evaluated("type::get") =>
    \A i \in 1..Len(args) :
      (args[i].type = target /\ \A j \in 1..(i - 1) : args[j].type # target)
        => result = args[i]

C6_Witness ==
  /\ Evaluated("type::get")
  /\ Len(args) = 3
  /\ ConvertibleOnly(args[1].type, target)
  /\ args[2].type = target /\ args[3].type = target
  /\ args[2].val # args[3].val
  /\ result = args[2]

\* C7: when Q holds no element of declared type Type (the empty pack
\* included), type<Type, d>::get(Q...) is d, and Type{} when no default is
\* given; get always yields a value of Type.
C7_GetFallsBackToDefault ==
  Evaluated("type::get") =>
    /\ (\A i \in 1..Len(args) : args[i].type # target) =>
         result = [type |-> target, val |-> IF Len(dflt) = 0 THEN 0 ELSE dflt[1]]
    /\ result # IllFormed
    /\ result.type = target

C7_Witness ==
  /\ Evaluated("type::get")
  /\ Len(args) = 2
  /\ \A i \in 1..Len(args) : args[i].type # target
  /\ ConvertibleOnly(args[1].type, target)
  /\ Len(dflt) = 1
  /\ result = [type |-> target, val |-> dflt[1]]

\* C8: the membership decision does not change when the query pack is
\* permuted, for is_type_list<A...>::contains_v<Q...> and for
\* is_type_val_list<A...>::contains_v(q...).
C8_QueryPermutationInvariant ==
  /\ Evaluated("is_type_list::contains_v") =>
       \A f \in Rearrangements(Len(params)) :
         contains_v(list, Permuted(params, f)) = result
  /\ Evaluated("is_type_val_list::contains_v") =>
       \A f \in Rearrangements(Len(args)) :
         is_type_val_list_contains_v(list, Permuted(args, f)) = result

C8_Witness ==
  /\ Evaluated("is_type_list::contains_v")
  /\ Len(params) = 3
  /\ InList(params[1], list) /\ InList(params[2], list)
  /\ ~InList(params[3], list)
  /\ result = FALSE

\* C9: the membership decision does not change when the allowed list is
\* permuted; a queried type is found at the start, in the middle and at the
\* end of the list.
C9_ListPermutationInvariant ==
  /\ Evaluated("is_type_list::contains_v") =>
       /\ \A f \in Rearrangements(Len(list)) :
            contains_v(Permuted(list, f), params) = result
       /\ \A j \in 1..Len(list) : contains_v(list, <<list[j]>>) = TRUE
  /\ Evaluated("is_type_val_list::contains_v") =>
       \A f \in Rearrangements(Len(list)) :
         is_type_val_list_contains_v(Permuted(list, f), args) = result

C9_Witness ==
  /\ Evaluated("is_type_list::contains_v")
  /\ Len(list) = 3
  /\ Cardinality({list[j] : j \in 1..3}) = 3
  /\ params = <<list[2], list[3], list[1]>>
  /\ result = TRUE

\* C10: in type<Type, d>::get an element whose declared type is another
\* type that converts implicitly to Type is skipped at every position: the
\* call that starts with it is resolved to a generic overload (const First),
\* the result is what get yields without these elements, and it is the
\* default or an element of declared type Type, never a converted element.
C10_GetSkipsConvertible ==
  Evaluated("type::get") =>
    LET n == Len(args)
        exact(v) == ~ConvertibleOnly(v.type, target)
    IN /\ \A i \in 1..n :
            ConvertibleOnly(args[i].type, target) =>
              get_overload(target, SubSeq(args, i, n))
                \in {"get(const First)", "get(const First, const Rest... rest)"}
       /\ result = get(target, dflt, SelectSeq(args, exact))
       /\ \/ result = defaultValue(target, dflt)
          \/ \E i \in 1..n : args[i].type = target /\ result = args[i]

C10_Witness ==
  /\ Evaluated("type::get")
  /\ target = "bool"
  /\ Len(args) = 3
  /\ args[1] = [type |-> "int", val |-> 2]
  /\ args[2].type = "TestType4"
  /\ args[3] = [type |-> "int", val |-> 2]
  /\ dflt = <<>>
  /\ result = [type |-> "bool", val |-> 0]

\* C12: when the declared types of Q are pairwise distinct
\* (is_types_unique_v holds of them), type<Type, d>::get yields the same
\* value for every permutation of Q; a permutation of Q changes the value
\* only when Q holds two or more elements of declared type Type.
C12_GetPermutationInvariantOnUniqueTypes ==
  Evaluated("type::get") =>
    LET matches == {i \in 1..Len(args) : args[i].type = target}
    IN \A f \in Rearrangements(Len(args)) :
         /\ is_types_unique_v(TypesOf(args)) =>
              get(target, dflt, Permuted(args, f)) = result
         /\ get(target, dflt, Permuted(args, f)) # result =>
              Cardinality(matches) >= 2

C12_Witness ==
  /\ Evaluated("type::get")
  /\ Len(args) = 3
  /\ is_types_unique_v(TypesOf(args))
  /\ ConvertibleOnly(args[1].type, target)
  /\ args[3].type = target
  /\ Len(dflt) = 1
  /\ result = args[3]

-----------------------------------------------------------------------------
(* Termination of the step-wise evaluation *)

InnerFns == {"is_type_list::is_parameter_inside", "contains_list::is_parameter_inside"}

EntryFns == {"is_types_unique_v", "is_types_val_unique_v",
             "is_type_list::contains_v", "is_type_val_list::contains_v"}

\* what is left to do: the remaining pack first, then the remaining list
Measure ==
  Len(call.rest) * (Len(list) + 3)
    + (IF call.fn \in InnerFns THEN Len(call.lst)
       ELSE IF call.fn \in EntryFns THEN Len(list) + 2
       ELSE Len(list) + 1)

\* a step that goes on never lengthens the remaining pack, and a step that
\* re-enters the template / function it is in shortens the remaining pack,
\* or the remaining allowed list in is_parameter_inside
Shortens ==
  (pc = "running" /\ pc' = "running") =>
    /\ Len(call'.rest) <= Len(call.rest)
    /\ call'.fn = call.fn =>
         \/ Len(call'.rest) < Len(call.rest)
         \/ /\ call.fn \in InnerFns
            /\ call'.rest = call.rest
            /\ Len(call'.lst) < Len(call.lst)
    /\ Measure' < Measure
    /\ Measure' >= 0

\* the step that yields the result is a base case (empty pack, single
\* element pack, single type allowed list) unless && or ?: or a matching
\* overload decided the result before
EndsInBaseCase ==
  (pc = "running" /\ pc' = "evaluated") =>
    \/ Len(call.rest) <= 1
    \/ call.fn = "type::get" /\ call.rest[1].type = target /\ result' = call.rest[1]
    \/ call.fn = "duplicate::duplicate_types_val" /\ result' = FALSE
    \/ call.fn = "contains_list::is_parameter_inside" /\ Len(call.lst) = 1 /\ result' = FALSE

\* the steps made are bounded by the lengths of the pack and of the list
StepBound ==
  pc \in {"running", "evaluated"} => steps <= 2 + Len(Pack) * (Len(list) + 1)

====
